---- MODULE Spec2Model ----
(***************************************************************************)
(* EX33 Save Editor (ex33_save_editor.py): the edit session (load_sav,     *)
(* load_json, save_json, export_sav, refresh_inputs), the inventory index  *)
(* (get_value_from_json / set_value_in_json) and the startup pipeline      *)
(* (patch_yaml_with_master, load_mapping, validate_categories).            *)
(*                                                                         *)
(* Strings are sequences of one-character strings; file paths and file     *)
(* names are sequences of tokens (directory, stem, extension, timestamp).  *)
(***************************************************************************)
EXTENDS Integers, Sequences, FiniteSets, TLC

VARIABLES
    \* ---- the edit session (EX33SaveEditor fields) ----
    current_sav_path,   \* self.current_sav_path (unset until load_sav)
    current_json_path,  \* self.current_json_path (unset until a load)
    full_json,          \* self.full_json: [set, props]
    loaded_json,        \* self.loaded_json: the aggregated entry index
    input_vars,         \* self.input_vars: ordered <<[key, text]>>
    selected_main,      \* self.selected_main_category
    selected_sub,       \* self.selected_sub_category
    search_var,         \* self.search_var
    \* ---- the file system and the clock ----
    fs_sav,             \* container files: path -> content
    fs_json,            \* document files: path -> content
    backups,            \* files in Save_Backup: set of [path, ts, src]
    backup_dir,         \* TRUE when Save_Backup exists
    clock,              \* wall clock in whole seconds
    \* ---- startup (module functions and __init__) ----
    mapping_file,       \* content of ex33_mapping_full.yaml
    pictos_file,        \* content of pictos.txt
    allow_updating,     \* config Allow_Updating
    items,              \* self.items: the catalog
    pc,                 \* position of __init__
    \* ---- what the last operation did and showed ----
    last

vars == <<current_sav_path, current_json_path, full_json, loaded_json, input_vars,
          selected_main, selected_sub, search_var, fs_sav, fs_json, backups,
          backup_dir, clock, mapping_file, pictos_file, allow_updating, items, pc,
          last>>

sessionVars == <<current_sav_path, current_json_path, full_json, loaded_json,
                 input_vars, selected_main, selected_sub, search_var>>
diskVars == <<fs_sav, fs_json, backups, backup_dir>>
startupVars == <<mapping_file, pictos_file, allow_updating, items, pc>>

-----------------------------------------------------------------------------
(* Bounds of the model *)

\* the clock runs from 0 to MaxTime seconds
MaxTime == 1
\* length of the inventory indexes drawn for the index specification
MaxLen == 3
\* number of lines of the master list
MaxLines == 2
\* number of items of the catalogs drawn for the startup specification
MaxItems == 2

-----------------------------------------------------------------------------
(* Strings *)

Digits == <<"0", "1", "2", "3", "4", "5", "6", "7", "8", "9">>

IsDigit(c) == \E d \in 1..10 : Digits[d] = c

DigitValue(c) == (CHOOSE d \in 1..10 : Digits[d] = c) - 1

\* str.strip(): whitespace is the blank and the tab
IsSpace(c) == c = " " \/ c = "TAB"

RECURSIVE LStrip(_)
LStrip(s) == IF s # <<>> /\ IsSpace(Head(s)) THEN LStrip(Tail(s)) ELSE s

RECURSIVE RStrip(_)
RStrip(s) ==
    IF s # <<>> /\ IsSpace(s[Len(s)]) THEN RStrip(SubSeq(s, 1, Len(s) - 1)) ELSE s

Strip(s) == RStrip(LStrip(s))

\* the text int() accepts: blanks around an optional sign and one or more digits
IsIntText(t) ==
    LET s == Strip(t)
        body == IF s # <<>> /\ Head(s) \in {"-", "+"} THEN Tail(s) ELSE s
    IN  body # <<>> /\ \A i \in 1..Len(body) : IsDigit(body[i])

RECURSIVE DigitsValue(_)
DigitsValue(s) ==
    IF s = <<>> THEN 0
    ELSE 10 * DigitsValue(SubSeq(s, 1, Len(s) - 1)) + DigitValue(s[Len(s)])

\* int(text), for a text int() accepts
IntOf(t) ==
    LET s == Strip(t)
    IN  IF Head(s) = "-" THEN 0 - DigitsValue(Tail(s))
        ELSE IF Head(s) = "+" THEN DigitsValue(Tail(s))
        ELSE DigitsValue(s)

RECURSIVE NatText(_)
NatText(n) ==
    IF n < 10 THEN <<Digits[n + 1]>> ELSE NatText(n \div 10) \o <<Digits[(n % 10) + 1]>>

\* str(n) of an integer
IntText(n) == IF n < 0 THEN <<"-">> \o NatText(0 - n) ELSE NatText(n)

\* str.lower() on the letters the model uses
LowerChar(c) ==
    CASE c = "A" -> "a"
      [] c = "B" -> "b"
      [] c = "C" -> "c"
      [] OTHER -> c

Lower(s) == [i \in 1..Len(s) |-> LowerChar(s[i])]

\* `sub in s` of two strings
Contains(s, sub) ==
    \E i \in 0..(Len(s) - Len(sub)) : SubSeq(s, i + 1, i + Len(sub)) = sub

\* str.replace(old, new) where old is one token of the name
RECURSIVE Replace(_, _, _)
Replace(s, old, new) ==
    IF s = <<>> THEN <<>>
    ELSE (IF Head(s) = old THEN new ELSE <<Head(s)>>) \o Replace(Tail(s), old, new)

-----------------------------------------------------------------------------
(* The structured document *)

InventoryPrefix == "InventoryItems_"

KA == <<"A">>
KB == <<"B">>
KC == <<"C">>

Entry(n, v) == [Name |-> n, Int |-> v]

\* a property of root.properties as it is on disk: its name, whether its value
\* is an object carrying "Map", and that payload
Prop(n, m, es) == [name |-> n, hasMap |-> m, Map |-> es]

\* one inventory map, and one property that is no map
Doc1 ==
    << Prop(<<InventoryPrefix, "0">>, TRUE, <<Entry(KA, 1)>>),
       Prop(<<"Gold">>, FALSE, <<>>) >>

\* two inventory maps around a map that is no inventory map; the Name A twice
Doc2 ==
    << Prop(<<InventoryPrefix, "0">>, TRUE, <<Entry(KA, 1), Entry(KB, 2)>>),
       Prop(<<"Other", "Items">>, TRUE, <<Entry(KC, 5)>>),
       Prop(<<InventoryPrefix, "1">>, TRUE, <<Entry(KA, 3)>>) >>

DocIds == {"doc1", "doc2"}

DocOf(id) == IF id = "doc1" THEN Doc1 ELSE Doc2

\* k.startswith("InventoryItems_") and isinstance(v, dict) and "Map" in v
IsInventoryMap(p) == p.name # <<>> /\ Head(p.name) = InventoryPrefix /\ p.hasMap

\* the loops of load_sav and load_json: maps.extend(v["Map"]) over the properties
RECURSIVE IndexInventory(_)
IndexInventory(props) ==
    IF props = <<>> THEN <<>>
    ELSE (IF IsInventoryMap(Head(props)) THEN Head(props).Map ELSE <<>>)
         \o IndexInventory(Tail(props))

\* The payload of "Map" in memory. The index holds the very entry objects of
\* the inventory maps, so an inventory map is the list of their positions in
\* loaded_json (tag "refs"); another map keeps its entries (tag "list"); and
\* tag "str" is a payload that is a string.
RefsPayload(r) == [tag |-> "refs", refs |-> r, list |-> <<>>, str |-> <<>>]
ListPayload(l) == [tag |-> "list", refs |-> <<>>, list |-> l, str |-> <<>>]
StrPayload(t) == [tag |-> "str", refs |-> <<>>, list |-> <<>>, str |-> t]

\* json.load followed by the aggregation: the document in memory
RECURSIVE LoadProps(_, _)
LoadProps(props, offset) ==
    IF props = <<>> THEN <<>>
    ELSE LET p == Head(props)
         IN  IF IsInventoryMap(p)
             THEN <<[name |-> p.name, hasMap |-> TRUE,
                     Map |-> RefsPayload([i \in 1..Len(p.Map) |-> offset + i])]>>
                  \o LoadProps(Tail(props), offset + Len(p.Map))
             ELSE <<[name |-> p.name, hasMap |-> p.hasMap, Map |-> ListPayload(p.Map)]>>
                  \o LoadProps(Tail(props), offset)

\* the entries a property of the document in memory holds
MapEntries(p, index) ==
    IF p.Map.tag = "refs" THEN [i \in 1..Len(p.Map.refs) |-> index[p.Map.refs[i]]]
    ELSE p.Map.list

NoDocument == [set |-> FALSE, props |-> <<>>]

-----------------------------------------------------------------------------
(* The inventory index *)

HasKey(index, key) == \E i \in 1..Len(index) : index[i].Name = key

FirstIndex(index, key) ==
    CHOOSE i \in 1..Len(index) :
        index[i].Name = key /\ \A j \in 1..(i - 1) : index[j].Name # key

\* get_value_from_json: the Int of the first entry of that Name, "" when none
get_value_from_json(index, key) ==
    IF HasKey(index, key)
    THEN [present |-> TRUE, Int |-> index[FirstIndex(index, key)].Int]
    ELSE [present |-> FALSE, Int |-> 0]

LastIndex(index, key) ==
    CHOOSE i \in 1..Len(index) :
        index[i].Name = key /\ \A j \in (i + 1)..Len(index) : index[j].Name # key

\* set_value_in_json without the `return` at the first match: the loop goes on
\* and the last entry of that Name is the one left changed
set_value_in_json_last(index, key, new_value) ==
    IF HasKey(index, key)
    THEN [index EXCEPT ![LastIndex(index, key)].Int = new_value]
    ELSE Append(index, Entry(key, new_value))

\* set_value_in_json, and the same loop inlined in save_json
set_value_in_json(index, key, new_value) ==
    IF HasKey(index, key)
    THEN [index EXCEPT ![FirstIndex(index, key)].Int = new_value]
    ELSE Append(index, Entry(key, new_value))

-----------------------------------------------------------------------------
(* The catalog *)

\* a key of an item that may be missing: category, quantity
Missing == [present |-> FALSE, value |-> <<>>]
Given(v) == [present |-> TRUE, value |-> v]
NoQuantity == [present |-> FALSE, value |-> 0]

Item(n, k, c, q) == [name |-> n, save_key |-> k, category |-> c, quantity |-> q]

\* item.get("category", "")
CategoryOrEmpty(item) == IF item.category.present THEN item.category.value ELSE <<>>

\* "." in category
HasSeparator(cat) == \E i \in 1..Len(cat) : cat[i] = "."

FirstSeparator(cat) ==
    CHOOSE i \in 1..Len(cat) : cat[i] = "." /\ \A j \in 1..(i - 1) : cat[j] # "."

\* main, sub = category.split(".", 1)
MainOf(cat) == SubSeq(cat, 1, FirstSeparator(cat) - 1)
SubOf(cat) == SubSeq(cat, FirstSeparator(cat) + 1, Len(cat))

\* the catalog of the edit session: two fields in Inv.Items, one in Inv.Keys
SessionItems ==
    << Item(<<"A", "b">>, KA, Given(<<"Inv", ".", "Items">>), NoQuantity),
       Item(<<"b">>, KB, Given(<<"Inv", ".", "Items">>), NoQuantity),
       Item(<<"c">>, KC, Given(<<"Inv", ".", "Keys">>), NoQuantity) >>

\* the category tokens of the model in ascending string order
TokenOrder == <<".", "Default", "Inv", "Items", "Keys", "Main", "Stats">>

TokenRank(t) == CHOOSE i \in 1..Len(TokenOrder) : TokenOrder[i] = t

\* a < b of two strings of category tokens
RECURSIVE StrLess(_, _)
StrLess(a, b) ==
    IF b = <<>> THEN FALSE
    ELSE IF a = <<>> THEN TRUE
    ELSE IF Head(a) = Head(b) THEN StrLess(Tail(a), Tail(b))
    ELSE TokenRank(Head(a)) < TokenRank(Head(b))

\* get_structured_categories: the main categories, and the subs of each
MainCategories(its) ==
    {MainOf(its[i].category.value) :
        i \in {j \in 1..Len(its) : HasSeparator(its[j].category.value)}}

SubCategories(its, main) ==
    {SubOf(its[i].category.value) :
        i \in {j \in 1..Len(its) : HasSeparator(its[j].category.value)
                                   /\ MainOf(its[j].category.value) = main}}

\* sorted(v)[0]
FirstSub(its, main) ==
    CHOOSE s \in SubCategories(its, main) :
        \A t \in SubCategories(its, main) : t = s \/ StrLess(s, t)

-----------------------------------------------------------------------------
(* refresh_inputs *)

\* self.input_vars[key] = var: a dict keeps the place of a key it already has
DictPut(d, key, text) ==
    IF \E i \in 1..Len(d) : d[i].key = key
    THEN [i \in 1..Len(d) |-> IF d[i].key = key THEN [key |-> key, text |-> text] ELSE d[i]]
    ELSE Append(d, [key |-> key, text |-> text])

\* str(val) of what get_value_from_json returned
ValueText(v) == IF v.present THEN IntText(v.Int) ELSE <<>>

Shown(item, cat_key, term) ==
    /\ item.category.value = cat_key
    /\ \/ term = <<>>
       \/ Contains(Lower(item.name), term)
       \/ Contains(Lower(item.save_key), term)

RECURSIVE FillInputs(_, _, _, _, _)
FillInputs(its, cat_key, term, index, acc) ==
    IF its = <<>> THEN acc
    ELSE FillInputs(Tail(its), cat_key, term, index,
            IF Shown(Head(its), cat_key, term)
            THEN DictPut(acc, Head(its).save_key,
                         ValueText(get_value_from_json(index, Head(its).save_key)))
            ELSE acc)

\* the input fields after refresh_inputs
refresh_inputs(its, main, sub, search, index) ==
    IF main = <<>> \/ sub = <<>> THEN <<>>
    ELSE FillInputs(its, main \o <<".">> \o sub, Lower(search), index, <<>>)

-----------------------------------------------------------------------------
(* Files, the clock and the backups *)

SavExt == ".sav"
JsonExt == ".json"
BACKUP_DIR == "Save_Backup/"

Dirs == {"d1/", "d2/"}

\* the container files the file dialog offers: one name in two directories
SavPaths == {<<"d1/", "a", SavExt>>, <<"d2/", "a", SavExt>>}

\* sav_path.replace(".sav", ".json")
JsonPathOf(sav_path) == Replace(sav_path, SavExt, <<JsonExt>>)

\* self.current_json_path.replace(".json", ".sav")
SavPathOf(json_path) == Replace(json_path, JsonExt, <<SavExt>>)

JsonPaths == {JsonPathOf(p) : p \in SavPaths}

Unset == <<>>

\* os.path.basename
RECURSIVE Basename(_)
Basename(path) ==
    IF \E i \in 1..Len(path) : path[i] \in Dirs THEN Basename(Tail(path)) ELSE path

\* time.strftime("%Y%m%d-%H%M%S"): the clock's second, written out
get_timestamp(now) == IntText(now)

\* the backup name with the timestamp left out of the replacement
BackupName_unstamped(path, ext, timestamp) ==
    <<BACKUP_DIR>> \o Replace(Basename(path), ext, <<"_BACKUP", ext>>)

\* os.path.join("Save_Backup",
\*              basename(path).replace(ext, f"_BACKUP-{timestamp}" + ext))
BackupName(path, ext, timestamp) ==
    <<BACKUP_DIR>> \o Replace(Basename(path), ext, <<"_BACKUP-">> \o timestamp \o <<ext>>)

\* shutil.copy2(src, dst): dst is created, or overwritten when it exists
CopyTo(files, dst, ts, src, content) ==
    {b \in files : b.path # dst}
        \cup {[path |-> dst, ts |-> ts, src |-> src, content |-> content]}

-----------------------------------------------------------------------------
(* What an operation did: the record `last` *)

Did(op, outcome, conv, backedUp, backup_path, converted, wrote, msg) ==
    [op |-> op, outcome |-> outcome, conv |-> conv, backedUp |-> backedUp,
     backup_path |-> backup_path, converted |-> converted, wrote |-> wrote,
     msg |-> msg]

Nothing == Did("none", "none", "none", FALSE, <<>>, FALSE, <<>>, "none")

\* what the converter process does: it is not found, it cannot be run, it exits
\* with status zero, or it exits with another status
ConverterOutcomes == {"notfound", "oserror", "ok", "fail"}

-----------------------------------------------------------------------------
(* The edit session: load_sav, load_json, save_json, export_sav *)

\* self.full_json = data; self.loaded_json = maps; self.refresh_inputs()
LoadDocument(doc) ==
    /\ full_json' = [set |-> TRUE, props |-> LoadProps(doc, 0)]
    /\ loaded_json' = IndexInventory(doc)
    /\ input_vars' = refresh_inputs(items, selected_main, selected_sub, search_var,
                                    IndexInventory(doc))

\* the document file after `uesave to-json -i sav_path -o json_path`: written on
\* exit status zero; on another status left as it was or left partially written
AfterToJson(sav_path, json_path, conv, partial) ==
    IF conv = "ok" THEN [fs_json EXCEPT ![json_path] = fs_sav[sav_path]]
    ELSE IF conv = "fail" /\ partial THEN [fs_json EXCEPT ![json_path] = "garbage"]
    ELSE fs_json

\* the container file after `uesave from-json -i json_path -o sav_path`: written
\* on exit status zero
AfterFromJson(json_path, sav_path, conv) ==
    IF conv = "ok" THEN [fs_sav EXCEPT ![sav_path] = fs_json[json_path]] ELSE fs_sav

\* the dialog of load_sav is dismissed: `if not sav_path: return`
load_sav_cancel ==
    /\ pc = "ready"
    /\ last' = Did("load_sav", "cancelled", "none", FALSE, <<>>, FALSE, <<>>, "none")
    /\ UNCHANGED <<sessionVars, diskVars, clock, startupVars>>

\* load_sav on the file sav_path; copyOk: shutil.copy2 succeeds; conv: what the
\* converter does; partial: a failing converter leaves a partial output file
load_sav(sav_path, copyOk, conv, partial) ==
    /\ pc = "ready"
    \* the converter is not reached when the copy fails
    /\ ~copyOk => (conv = "notfound" /\ ~partial)
    /\ partial => conv = "fail"
    /\ LET timestamp == get_timestamp(clock)
           backup_sav == BackupName(sav_path, SavExt, timestamp)
           json_path == JsonPathOf(sav_path)
           disk == AfterToJson(sav_path, json_path, conv, partial)
           ran == conv \in {"ok", "fail"}
           written == IF disk # fs_json THEN json_path ELSE <<>>
       IN  /\ current_sav_path' = sav_path
           /\ backup_dir' = TRUE
           /\ UNCHANGED <<fs_sav, clock, selected_main, selected_sub, search_var,
                          startupVars>>
           /\ IF ~copyOk
              THEN \* copy2 raises: the handler ends before line 477
                   /\ last' = Did("load_sav", "OSError", "none", FALSE, <<>>, FALSE,
                                  <<>>, "none")
                   /\ UNCHANGED <<current_json_path, full_json, loaded_json,
                                  input_vars, fs_json, backups>>
              ELSE /\ backups' = CopyTo(backups, backup_sav, timestamp, sav_path,
                                        fs_sav[sav_path])
                   /\ current_json_path' = json_path
                   /\ fs_json' = disk
                   /\ IF conv = "notfound"
                      THEN \* except FileNotFoundError: showerror, return
                           /\ last' = Did("load_sav", "returned", conv, TRUE,
                                          backup_sav, FALSE, <<>>, "uesave not found")
                           /\ UNCHANGED <<full_json, loaded_json, input_vars>>
                      ELSE IF conv = "oserror"
                      THEN \* any other exception of subprocess.run is not caught
                           /\ last' = Did("load_sav", "OSError", conv, TRUE,
                                          backup_sav, FALSE, <<>>, "none")
                           /\ UNCHANGED <<full_json, loaded_json, input_vars>>
                      ELSE IF disk[json_path] = "absent"
                      THEN \* open(json_path) raises
                           /\ last' = Did("load_sav", "FileNotFoundError", conv, TRUE,
                                          backup_sav, ran, written, "none")
                           /\ UNCHANGED <<full_json, loaded_json, input_vars>>
                      ELSE IF disk[json_path] = "garbage"
                      THEN \* json.load raises
                           /\ last' = Did("load_sav", "JSONDecodeError", conv, TRUE,
                                          backup_sav, ran, written, "none")
                           /\ UNCHANGED <<full_json, loaded_json, input_vars>>
                      ELSE /\ last' = Did("load_sav", "loaded", conv, TRUE,
                                          backup_sav, ran, written, "none")
                           /\ LoadDocument(DocOf(disk[json_path]))

\* the dialog of load_json is dismissed: `if not json_path: return`
load_json_cancel ==
    /\ pc = "ready"
    /\ last' = Did("load_json", "cancelled", "none", FALSE, <<>>, FALSE, <<>>, "none")
    /\ UNCHANGED <<sessionVars, diskVars, clock, startupVars>>

\* load_json on a document file the dialog offers
load_json(json_path) ==
    /\ pc = "ready"
    /\ fs_json[json_path] # "absent"
    /\ current_json_path' = json_path
    /\ UNCHANGED <<current_sav_path, selected_main, selected_sub, search_var,
                   diskVars, clock, startupVars>>
    /\ IF fs_json[json_path] = "garbage"
       THEN /\ last' = Did("load_json", "JSONDecodeError", "none", FALSE, <<>>,
                           FALSE, <<>>, "none")
            /\ UNCHANGED <<full_json, loaded_json, input_vars>>
       ELSE /\ last' = Did("load_json", "loaded", "none", FALSE, <<>>, FALSE, <<>>,
                           "none")
            /\ LoadDocument(DocOf(fs_json[json_path]))


\* the loop of save_json with `if val:` left out and a blank read as zero
RECURSIVE ApplyEdits_blankzero(_, _)
ApplyEdits_blankzero(index, inputs) ==
    IF inputs = <<>> THEN [index |-> index, error |-> FALSE]
    ELSE LET val == Strip(Head(inputs).text)
         IN  IF val # <<>> /\ ~IsIntText(val) THEN [index |-> index, error |-> TRUE]
             ELSE ApplyEdits_blankzero(
                     set_value_in_json(index, Head(inputs).key,
                                       IF val = <<>> THEN 0 ELSE IntOf(val)),
                     Tail(inputs))

\* the loop of save_json over self.input_vars: a blank field is passed over, the
\* others are set in the index; int(val) raises ValueError on the first text
\* that is no integer and the loop ends there
RECURSIVE ApplyEdits(_, _)
ApplyEdits(index, inputs) ==
    IF inputs = <<>> THEN [index |-> index, error |-> FALSE]
    ELSE LET val == Strip(Head(inputs).text)
         IN  IF val = <<>> THEN ApplyEdits(index, Tail(inputs))
             ELSE IF ~IsIntText(val) THEN [index |-> index, error |-> TRUE]
             ELSE ApplyEdits(set_value_in_json(index, Head(inputs).key, IntOf(val)),
                             Tail(inputs))

\* lines 533-535: v["Map"] = self.loaded_jsontimestamp = get_timestamp()
\* gives every inventory map the timestamp string as its payload
Flush(props, timestamp) ==
    [i \in 1..Len(props) |->
        IF IsInventoryMap(props[i])
        THEN [props[i] EXCEPT !.Map = StrPayload(timestamp)]
        ELSE props[i]]

\* save_json. Nothing binds the name `timestamp` that line 537 reads, so the
\* handler ends there with NameError: lines 538-547 (the copy, the write of the
\* document file and the "Saved" box) are never run.
save_json ==
    /\ pc = "ready"
    /\ UNCHANGED <<current_sav_path, current_json_path, input_vars, selected_main,
                   selected_sub, search_var, fs_sav, fs_json, backups, clock,
                   startupVars>>
    /\ IF current_json_path = Unset
       THEN \* the attribute does not exist before the first load
            /\ last' = Did("save_json", "AttributeError", "none", FALSE, <<>>, FALSE,
                           <<>>, "none")
            /\ UNCHANGED <<full_json, loaded_json, backup_dir>>
       ELSE LET edited == ApplyEdits(loaded_json, input_vars)
            IN  /\ loaded_json' = edited.index
                /\ IF edited.error
                   THEN /\ last' = Did("save_json", "ValueError", "none", FALSE, <<>>,
                                       FALSE, <<>>, "none")
                        /\ UNCHANGED <<full_json, backup_dir>>
                   ELSE IF ~full_json.set
                   THEN \* self.full_json does not exist before a load succeeds
                        /\ last' = Did("save_json", "AttributeError", "none", FALSE,
                                       <<>>, FALSE, <<>>, "none")
                        /\ UNCHANGED <<full_json, backup_dir>>
                   ELSE /\ full_json' = [full_json EXCEPT
                                           !.props = Flush(@, get_timestamp(clock))]
                        /\ backup_dir' = TRUE
                        /\ last' = Did("save_json", "NameError", "none", FALSE, <<>>,
                                       FALSE, <<>>, "none")

\* export_sav
export_sav(conv) ==
    /\ pc = "ready"
    /\ UNCHANGED <<sessionVars, fs_json, backups, backup_dir, clock, startupVars>>
    /\ IF current_json_path = Unset
       THEN /\ conv = "notfound"
            /\ last' = Did("export_sav", "AttributeError", "none", FALSE, <<>>, FALSE,
                           <<>>, "none")
            /\ UNCHANGED fs_sav
       ELSE LET sav_path == SavPathOf(current_json_path)
                disk == AfterFromJson(current_json_path, sav_path, conv)
                written == IF conv = "ok" THEN sav_path ELSE <<>>
            IN  /\ conv = "ok" => fs_json[current_json_path] \in DocIds
                /\ fs_sav' = disk
                /\ IF conv = "notfound"
                   THEN last' = Did("export_sav", "returned", conv, FALSE, <<>>,
                                    FALSE, <<>>, "uesave not found")
                   ELSE IF conv = "oserror"
                   THEN last' = Did("export_sav", "returned", conv, FALSE, <<>>,
                                    FALSE, <<>>, "Failed to export .sav")
                   ELSE \* result.returncode is not looked at
                        last' = Did("export_sav", "returned", conv, FALSE, <<>>,
                                    TRUE, written,
                                    "Save file exported successfully.")

-----------------------------------------------------------------------------
(* The input fields *)

\* what the user types into a field
InputTexts == {<<>>, <<" ", "7">>, <<"x">>}

SearchTerms == {<<>>, <<"A">>}

Shows(op) == Did(op, "none", "none", FALSE, <<>>, FALSE, <<>>, "none")

Refreshed(main, sub, search) ==
    input_vars' = refresh_inputs(items, main, sub, search, loaded_json)

\* the user types into the i-th field shown
edit_field(i, text) ==
    /\ pc = "ready"
    /\ i \in 1..Len(input_vars)
    /\ input_vars[i].text # text
    /\ input_vars' = [input_vars EXCEPT ![i].text = text]
    /\ last' = Shows("edit")
    /\ UNCHANGED <<current_sav_path, current_json_path, full_json, loaded_json,
                   selected_main, selected_sub, search_var, diskVars, clock,
                   startupVars>>

\* update_subcategories: a main category is picked
update_subcategories(main_cat) ==
    /\ pc = "ready"
    /\ selected_main' = main_cat
    /\ selected_sub' = FirstSub(items, main_cat)
    /\ Refreshed(main_cat, FirstSub(items, main_cat), search_var)
    /\ last' = Shows("refresh")
    /\ UNCHANGED <<current_sav_path, current_json_path, full_json, loaded_json,
                   search_var, diskVars, clock, startupVars>>

\* a sub category is picked in the menu update_subcategories filled
select_sub_category(sub) ==
    /\ pc = "ready"
    /\ selected_main # <<>>
    /\ sub \in SubCategories(items, selected_main)
    /\ selected_sub' = sub
    /\ Refreshed(selected_main, sub, search_var)
    /\ last' = Shows("refresh")
    /\ UNCHANGED <<current_sav_path, current_json_path, full_json, loaded_json,
                   selected_main, search_var, diskVars, clock, startupVars>>

\* the search text is written: the trace calls refresh_inputs
set_search(term) ==
    /\ pc = "ready"
    /\ search_var' = term
    /\ Refreshed(selected_main, selected_sub, term)
    /\ last' = Shows("refresh")
    /\ UNCHANGED <<current_sav_path, current_json_path, full_json, loaded_json,
                   selected_main, selected_sub, diskVars, clock, startupVars>>

\* toggle_dark_mode and the highlight box: refresh_inputs with nothing changed
toggle_dark_mode ==
    /\ pc = "ready"
    /\ Refreshed(selected_main, selected_sub, search_var)
    /\ last' = Shows("refresh")
    /\ UNCHANGED <<current_sav_path, current_json_path, full_json, loaded_json,
                   selected_main, selected_sub, search_var, diskVars, clock,
                   startupVars>>

\* a second passes
Tick ==
    /\ clock < MaxTime
    /\ clock' = clock + 1
    /\ UNCHANGED <<sessionVars, diskVars, startupVars, last>>

-----------------------------------------------------------------------------
(* The specification of the edit session: the files, the converter and the  *)
(* backups, with no category picked (no input field is shown)              *)

\* the state after __init__ with the catalog SessionItems: no document, no
\* paths, no input fields; a.json may be there from an earlier run
Init ==
    /\ current_sav_path = Unset
    /\ current_json_path = Unset
    /\ full_json = NoDocument
    /\ loaded_json = <<>>
    /\ input_vars = <<>>
    /\ selected_main = <<>>
    /\ selected_sub = <<>>
    /\ search_var = <<>>
    /\ fs_sav = [p \in SavPaths |-> IF Head(p) = "d1/" THEN "doc1" ELSE "doc2"]
    /\ fs_json \in {[p \in JsonPaths |-> "absent"],
                    [p \in JsonPaths |-> IF Head(p) = "d1/" THEN "doc2" ELSE "absent"]}
    /\ backups = {}
    /\ backup_dir = FALSE
    /\ clock = 0
    /\ mapping_file = [kind |-> "map", items |-> SessionItems]
    /\ pictos_file = [present |-> FALSE, lines |-> <<>>]
    /\ allow_updating = FALSE
    /\ items = SessionItems
    /\ pc = "ready"
    /\ last = Nothing

Next ==
    \/ load_sav_cancel
    \/ \E p \in SavPaths, copyOk \in BOOLEAN, conv \in ConverterOutcomes,
          partial \in BOOLEAN : load_sav(p, copyOk, conv, partial)
    \/ load_json_cancel
    \/ \E p \in JsonPaths : load_json(p)
    \/ save_json
    \/ \E conv \in ConverterOutcomes : export_sav(conv)
    \/ Tick

Spec == Init /\ [][Next]_vars

-----------------------------------------------------------------------------
(* The specification of editing: documents are loaded, categories picked,  *)
(* fields typed into and commits issued                                    *)

\* as Init, with both document files on disk
InitEdit ==
    /\ current_sav_path = Unset
    /\ current_json_path = Unset
    /\ full_json = NoDocument
    /\ loaded_json = <<>>
    /\ input_vars = <<>>
    /\ selected_main = <<>>
    /\ selected_sub = <<>>
    /\ search_var = <<>>
    /\ fs_sav = [p \in SavPaths |-> IF Head(p) = "d1/" THEN "doc1" ELSE "doc2"]
    /\ fs_json = [p \in JsonPaths |-> IF Head(p) = "d1/" THEN "doc1" ELSE "doc2"]
    /\ backups = {}
    /\ backup_dir = FALSE
    /\ clock = 0
    /\ mapping_file = [kind |-> "map", items |-> SessionItems]
    /\ pictos_file = [present |-> FALSE, lines |-> <<>>]
    /\ allow_updating = FALSE
    /\ items = SessionItems
    /\ pc = "ready"
    /\ last = Nothing

NextEdit ==
    \/ \E p \in JsonPaths : load_json(p)
    \/ save_json
    \/ \E i \in 1..Len(SessionItems), text \in InputTexts : edit_field(i, text)
    \/ \E m \in MainCategories(items) : update_subcategories(m)
    \/ \E s \in SubCategories(items, selected_main) : select_sub_category(s)
    \/ \E t \in SearchTerms : set_search(t)
    \/ toggle_dark_mode
    \/ Tick

SpecEdit == InitEdit /\ [][NextEdit]_vars

-----------------------------------------------------------------------------
(* Claims about the edit session *)

\* C1: whenever commit (save_json) overwrote the document file, export
\* (export_sav) overwrote the container file, or load-container (load_sav) fed
\* the container to the converter, the same operation had first created a
\* backup copy; without the backup there is no overwrite and no conversion.
C1_BackupBeforeOverwrite ==
    (\/ last.op = "save_json" /\ last.wrote # <<>>
     \/ last.op = "export_sav" /\ last.wrote # <<>>
     \/ last.op = "load_sav" /\ last.converted)
        => last.backedUp

\* every displayed field holds an empty or a valid integer value
FieldsValid ==
    \A i \in 1..Len(input_vars) :
        Strip(input_vars[i].text) = <<>> \/ IsIntText(Strip(input_vars[i].text))

\* C2: a commit (save_json) issued while a document is loaded and every
\* displayed field is empty or a valid integer completes: it reaches the
\* Committed outcome, the document file has been written and a backup of its
\* previous contents exists.
C2_CommitCompletes ==
    (last.op = "save_json" /\ current_json_path # Unset /\ full_json.set /\ FieldsValid)
        => /\ last.outcome = "Committed"
           /\ last.wrote = current_json_path
           /\ last.backedUp
           /\ \E b \in backups : b.src = current_json_path

\* C3: after the flush step of a commit every inventory map of root.properties
\* has the full updated entry list (the index, with all edits and appended
\* entries) as its Map payload.
C3_FlushBroadcastsIndex ==
    (last.op = "save_json" /\ last.outcome \notin {"AttributeError", "ValueError"})
        => \A i \in 1..Len(full_json.props) :
              IsInventoryMap(full_json.props[i])
                  => /\ full_json.props[i].Map.tag # "str"
                     /\ MapEntries(full_json.props[i], loaded_json) = loaded_json

\* a step of load_sav that met a converter problem
LoadSavConverterProblem ==
    /\ clock' = clock
    /\ last'.op = "load_sav"
    /\ last'.conv \in {"notfound", "oserror", "fail"}

\* C4: when load_sav meets a converter problem (the executable is not found, or
\* the converter exits with a non-zero status) the load is aborted and the
\* document in memory, full document and entry index, is what it was before.
C4_ConverterProblemKeepsDocument ==
    [][LoadSavConverterProblem =>
          /\ last'.outcome # "loaded"
          /\ full_json' = full_json
          /\ loaded_json' = loaded_json]_vars

\* C5: export_sav reports success only when the converter exited with status
\* zero.
C5_ExportSuccessOnlyOnExitZero ==
    (last.op = "export_sav" /\ last.msg = "Save file exported successfully.")
        => last.conv = "ok"

\* a step of load_sav or save_json that wrote a backup
BackupStep ==
    /\ clock' = clock
    /\ last'.op \in {"load_sav", "save_json"}
    /\ last'.backedUp

\* C7 as claimed: every backup is written to a path that no earlier backup was
\* written to, whatever the files and the timing.
C7_NeverOverwritesBackup ==
    [][BackupStep => \A b \in backups : b.path # last'.backup_path]_vars

\* C7 as amended: a backup is never written to the path of an earlier backup
\* that was taken at another second of the clock; only backups of equally named
\* files taken within one second share a path.
C7_DistinctStampsDistinctPaths ==
    [][BackupStep =>
          \A b \in backups :
              b.ts # get_timestamp(clock) => b.path # last'.backup_path]_vars

\* two backups taken at different seconds are in the backup directory
C7_Witness ==
    /\ last.op = "load_sav"
    /\ last.backedUp
    /\ \E b1, b2 \in backups : b1.ts # b2.ts

-----------------------------------------------------------------------------
(* The specification of the inventory index: set_value_in_json applied to   *)
(* indexes of up to MaxLen entries                                         *)

IndexKeys == {KA, KB, KC}
IndexValues == {0, 1}

IndexEntries == {Entry(k, v) : k \in IndexKeys, v \in IndexValues}

Indexes == UNION {[1..n -> IndexEntries] : n \in 0..MaxLen}

SetDid(key, value) ==
    [op |-> "set_value_in_json", outcome |-> "returned", key |-> key, value |-> value]

\* self.set_value_in_json(key_name, new_value)
set_value(key_name, new_value) ==
    /\ pc = "index"
    /\ loaded_json' = set_value_in_json(loaded_json, key_name, new_value)
    /\ last' = SetDid(key_name, new_value)
    /\ UNCHANGED <<current_sav_path, current_json_path, full_json, input_vars,
                   selected_main, selected_sub, search_var, diskVars, clock,
                   startupVars>>

InitIndex ==
    /\ current_sav_path = Unset
    /\ current_json_path = Unset
    /\ full_json = NoDocument
    /\ loaded_json \in Indexes
    /\ input_vars = <<>>
    /\ selected_main = <<>>
    /\ selected_sub = <<>>
    /\ search_var = <<>>
    /\ fs_sav = [p \in SavPaths |-> "doc1"]
    /\ fs_json = [p \in JsonPaths |-> "absent"]
    /\ backups = {}
    /\ backup_dir = FALSE
    /\ clock = 0
    /\ mapping_file = [kind |-> "map", items |-> SessionItems]
    /\ pictos_file = [present |-> FALSE, lines |-> <<>>]
    /\ allow_updating = FALSE
    /\ items = SessionItems
    /\ pc = "index"
    /\ last = Nothing

NextIndex == \E k \in IndexKeys, v \in IndexValues : set_value(k, v)

SpecIndex == InitIndex /\ [][NextIndex]_vars

\* the entries of the index with that Name
Positions(index, key) == {i \in 1..Len(index) : index[i].Name = key}

\* C6: after set(key, v), get(key) returns v; if entries of that Name exist the
\* first one is updated in place and no entry is added; if none exists exactly
\* one new entry is appended at the end; entries of other Names are unchanged.
C6_SetThenGet ==
    [][last'.op = "set_value_in_json" =>
        LET key == last'.key
            v == last'.value
            old == loaded_json
            new == loaded_json'
            at == Positions(old, key)
        IN  /\ get_value_from_json(new, key) = [present |-> TRUE, Int |-> v]
            /\ at # {} =>
                  /\ Len(new) = Len(old)
                  /\ \A i \in 1..Len(old) :
                        IF i \in at /\ \A j \in at : i <= j
                        THEN new[i] = Entry(key, v)
                        ELSE new[i] = old[i]
            /\ at = {} => new = old \o <<Entry(key, v)>>
            /\ \A i \in 1..Len(old) : old[i].Name # key => new[i] = old[i]]_vars

\* a key held by two entries has been set: the first holds the value, the
\* second still holds another
C6_Witness ==
    /\ last.op = "set_value_in_json"
    /\ \E i, j \in Positions(loaded_json, last.key) :
          /\ i < j
          /\ loaded_json[i].Int = last.value
          /\ loaded_json[j].Int # last.value

-----------------------------------------------------------------------------
(* Startup: patch_yaml_with_master, load_mapping, validate_categories *)

\* parts = line.strip().split(" ", 1): cut at the first blank, if there is one
HasBlank(s) == \E i \in 1..Len(s) : s[i] = " "

FirstBlank(s) == CHOOSE i \in 1..Len(s) : s[i] = " " /\ \A j \in 1..(i - 1) : s[j] # " "

SplitOnce(s) ==
    IF HasBlank(s)
    THEN <<SubSeq(s, 1, FirstBlank(s) - 1), SubSeq(s, FirstBlank(s) + 1, Len(s))>>
    ELSE <<s>>

\* lines 48-52: a line yields an entry when it splits in two parts and int()
\* accepts the first (otherwise ValueError is caught and the line is passed over)
IsEntryLine(line) ==
    LET parts == SplitOnce(Strip(line))
    IN  Len(parts) = 2 /\ IsIntText(parts[1])

EntryOf(line) ==
    LET parts == SplitOnce(Strip(line))
    IN  [quantity |-> IntOf(parts[1]), name |-> Strip(parts[2])]

\* item_name.lower() in item.get("name", "").lower()
NameMatches(item, item_name) == Contains(Lower(item.name), Lower(item_name))

\* lines 53-57 without the `break`: every matching item gets the quantity
RECURSIVE PatchEntry_all(_, _, _)
PatchEntry_all(its, quantity, item_name) ==
    IF its = <<>> THEN <<>>
    ELSE <<IF NameMatches(Head(its), item_name)
           THEN [Head(its) EXCEPT !.quantity = Given(quantity)]
           ELSE Head(its)>>
         \o PatchEntry_all(Tail(its), quantity, item_name)

\* lines 53-57: the scan of the items for one entry, ended by `break`
RECURSIVE PatchEntry(_, _, _)
PatchEntry(its, quantity, item_name) ==
    IF its = <<>> THEN <<>>
    ELSE IF NameMatches(Head(its), item_name)
    THEN <<[Head(its) EXCEPT !.quantity = Given(quantity)]>> \o Tail(its)
    ELSE <<Head(its)>> \o PatchEntry(Tail(its), quantity, item_name)

\* lines 47-59 with the loop given up at the first line that yields no entry
RECURSIVE PatchLines_stop(_, _)
PatchLines_stop(its, lines) ==
    IF lines = <<>> \/ ~IsEntryLine(Head(lines)) THEN its
    ELSE PatchLines_stop(
            PatchEntry(its, EntryOf(Head(lines)).quantity, EntryOf(Head(lines)).name),
            Tail(lines))

\* lines 47-59: the loop over the lines of the master list
RECURSIVE PatchLines(_, _)
PatchLines(its, lines) ==
    IF lines = <<>> THEN its
    ELSE PatchLines(
            IF IsEntryLine(Head(lines))
            THEN PatchEntry(its, EntryOf(Head(lines)).quantity, EntryOf(Head(lines)).name)
            ELSE its,
            Tail(lines))

\* patch_yaml_with_master: what it leaves in the mapping file, and whether it
\* raised. A file that does not parse (YAMLError) or a missing master list
\* (FileNotFoundError) is reported and nothing is written; on a file that is no
\* mapping, existing_yaml.get raises AttributeError at the first entry line.
patch_yaml_with_master(file, pictos) ==
    IF file.kind = "broken" \/ ~pictos.present THEN [file |-> file, raised |-> FALSE]
    ELSE IF file.kind = "notmap"
    THEN [file |-> file,
          raised |-> \E i \in 1..Len(pictos.lines) : IsEntryLine(pictos.lines[i])]
    ELSE [file |-> [file EXCEPT !.items = PatchLines(@, pictos.lines)],
          raised |-> FALSE]

\* lines 243-248 with the except clause re-raising
ReadMapping_fatal(file) ==
    IF file.kind = "map" THEN [items |-> file.items, raised |-> FALSE]
    ELSE [items |-> <<>>, raised |-> TRUE]

\* lines 243-248 and 146: yaml.safe_load, `return {}` on YAMLError, and
\* self.mapping.get("items", []), which raises on what is no mapping
ReadMapping(file) ==
    IF file.kind = "broken" THEN [items |-> <<>>, raised |-> FALSE]
    ELSE IF file.kind = "notmap" THEN [items |-> <<>>, raised |-> TRUE]
    ELSE [items |-> file.items, raised |-> FALSE]

\* __init__, lines 145-146: self.mapping = self.load_mapping(); self.items = ...
load_mapping ==
    /\ pc = "start"
    /\ LET patched == IF allow_updating
                      THEN patch_yaml_with_master(mapping_file, pictos_file)
                      ELSE [file |-> mapping_file, raised |-> FALSE]
           read == ReadMapping(patched.file)
       IN  /\ mapping_file' = patched.file
           /\ IF patched.raised \/ read.raised
              THEN /\ pc' = "crashed"
                   /\ items' = <<>>
                   /\ last' = Did("load_mapping", "AttributeError", "none", FALSE,
                                  <<>>, FALSE, <<>>, "none")
              ELSE /\ pc' = "loaded"
                   /\ items' = read.items
                   /\ last' = Did("load_mapping", "returned", "none", FALSE, <<>>,
                                  FALSE, <<>>, "none")
    /\ UNCHANGED <<sessionVars, diskVars, clock, pictos_file, allow_updating>>

\* "." not in item.get("category", "")
IsInvalid(item) == ~HasSeparator(CategoryOrEmpty(item))

InvalidItems(its) == {i \in 1..Len(its) : IsInvalid(its[i])}

DefaultToken == <<".", "Default">>

\* lines 225-226: item["category"] = item["category"] + ".Default" for the
\* invalid items in order; item["category"] raises KeyError when the key is
\* missing, and the items before it stay changed
RECURSIVE Repair(_)
Repair(its) ==
    IF its = <<>> THEN [items |-> <<>>, raised |-> FALSE]
    ELSE IF ~IsInvalid(Head(its))
    THEN LET rest == Repair(Tail(its))
         IN  [items |-> <<Head(its)>> \o rest.items, raised |-> rest.raised]
    ELSE IF ~Head(its).category.present
    THEN [items |-> its, raised |-> TRUE]
    ELSE LET rest == Repair(Tail(its))
         IN  [items |-> <<[Head(its) EXCEPT
                              !.category = Given(@.value \o DefaultToken)]>>
                        \o rest.items,
              raised |-> rest.raised]

\* validate_categories; should_fix is the answer to askyesno. An accepted
\* repair writes the mapping file and starts the program again.
validate_categories(should_fix) ==
    /\ pc = "loaded"
    /\ UNCHANGED <<sessionVars, diskVars, clock, pictos_file, allow_updating>>
    /\ IF InvalidItems(items) = {}
       THEN /\ ~should_fix
            /\ pc' = "validated"
            /\ last' = Did("validate_categories", "valid", "none", FALSE, <<>>,
                           FALSE, <<>>, "none")
            /\ UNCHANGED <<items, mapping_file>>
       ELSE IF ~should_fix
       THEN /\ pc' = "validated"
            /\ last' = Did("validate_categories", "declined", "none", FALSE, <<>>,
                           FALSE, <<>>, "Missing Subcategories Detected")
            /\ UNCHANGED <<items, mapping_file>>
       ELSE IF Repair(items).raised
       THEN /\ pc' = "crashed"
            /\ items' = Repair(items).items
            /\ last' = Did("validate_categories", "KeyError", "none", FALSE, <<>>,
                           FALSE, <<>>, "Missing Subcategories Detected")
            /\ UNCHANGED mapping_file
       ELSE /\ pc' = "start"
            /\ items' = <<>>
            /\ mapping_file' = [kind |-> "map", items |-> Repair(items).items]
            /\ last' = Did("validate_categories", "restart", "none", FALSE, <<>>,
                           FALSE, <<>>, "Subcategories added. Restarting now...")

\* __init__, lines 150-162: the fields, get_structured_categories (where
\* item["category"] raises KeyError on an item without the key) and build_ui
finish_init ==
    /\ pc = "validated"
    /\ IF \E i \in 1..Len(items) : ~items[i].category.present
       THEN /\ pc' = "crashed"
            /\ last' = Did("__init__", "KeyError", "none", FALSE, <<>>, FALSE, <<>>,
                           "none")
       ELSE /\ pc' = "ready"
            /\ last' = Did("__init__", "built", "none", FALSE, <<>>, FALSE, <<>>,
                           "none")
    /\ loaded_json' = <<>>
    /\ input_vars' = <<>>
    /\ UNCHANGED <<current_sav_path, current_json_path, full_json, selected_main,
                   selected_sub, search_var, diskVars, clock, mapping_file,
                   pictos_file, allow_updating, items>>

-----------------------------------------------------------------------------
(* The specification of startup *)

\* the items of the catalogs: categories with and without the separator, empty
\* and missing; names that contain one another; one quantity already there
StartupItems ==
    { Item(<<"A", "b">>, KA, Given(<<"Inv", ".", "Items">>), NoQuantity),
      Item(<<"a">>, KB, Given(<<"Inv">>), NoQuantity),
      Item(<<"b">>, KC, Missing, NoQuantity),
      Item(<<"a">>, KA, Given(<<>>), Given(9)),
      Item(<<"b", "A">>, KB, Given(<<"Inv", ".", "Keys">>), NoQuantity) }

Catalogs == UNION {[1..n -> StartupItems] : n \in 0..MaxItems}

\* the lines of pictos.txt: two entries, a line with no quantity, a line whose
\* quantity is no integer, a line that has a tab for the blank
MasterLines ==
    { <<"2", " ", "a">>,
      <<"1", " ", "B">>,
      <<"a">>,
      <<"x", " ", "a">>,
      <<"3", "TAB", "a">> }

MasterLists == UNION {[1..n -> MasterLines] : n \in 0..MaxLines}

MappingFiles ==
    {[kind |-> "broken", items |-> <<>>], [kind |-> "notmap", items |-> <<>>]}
        \cup {[kind |-> "map", items |-> c] : c \in Catalogs}

PictosFiles ==
    {[present |-> FALSE, lines |-> <<>>]}
        \cup {[present |-> TRUE, lines |-> l] : l \in MasterLists}

InitStartup ==
    /\ current_sav_path = Unset
    /\ current_json_path = Unset
    /\ full_json = NoDocument
    /\ loaded_json = <<>>
    /\ input_vars = <<>>
    /\ selected_main = <<>>
    /\ selected_sub = <<>>
    /\ search_var = <<>>
    /\ fs_sav = [p \in SavPaths |-> "doc1"]
    /\ fs_json = [p \in JsonPaths |-> "absent"]
    /\ backups = {}
    /\ backup_dir = FALSE
    /\ clock = 0
    /\ mapping_file \in MappingFiles
    /\ pictos_file \in PictosFiles
    /\ allow_updating \in BOOLEAN
    /\ items = <<>>
    /\ pc = "start"
    /\ last = Nothing

NextStartup ==
    \/ load_mapping
    \/ \E should_fix \in BOOLEAN : validate_categories(should_fix)
    \/ finish_init

SpecStartup == InitStartup /\ [][NextStartup]_vars

-----------------------------------------------------------------------------
(* Claims about startup *)

EndsWithDefault(category) ==
    /\ category.present
    /\ Len(category.value) >= Len(DefaultToken)
    /\ SubSeq(category.value, Len(category.value) - Len(DefaultToken) + 1,
              Len(category.value)) = DefaultToken

\* a step of validate_categories in which the repair was accepted
RepairAccepted ==
    /\ pc = "loaded"
    /\ last'.op = "validate_categories"
    /\ last'.outcome \notin {"valid", "declined"}

\* C8: for a catalog with at least one item whose category lacks the separator
\* (empty and missing categories included) an accepted repair completes: every
\* item that was invalid has a category ending in ".Default", the items that
\* were valid are unchanged, and validation finds no invalid item.
C8_RepairCompletes ==
    [][RepairAccepted =>
          /\ last'.outcome = "restart"
          /\ Len(mapping_file'.items) = Len(items)
          /\ \A i \in 1..Len(items) :
                IF ~HasSeparator(CategoryOrEmpty(items[i]))
                THEN EndsWithDefault(mapping_file'.items[i].category)
                ELSE mapping_file'.items[i] = items[i]
          /\ \A i \in 1..Len(items) :
                HasSeparator(CategoryOrEmpty(mapping_file'.items[i]))]_vars

\* C9 as claimed: a mapping file that does not parse is fatal for startup: the
\* point where the UI is built is never reached.
C9_BrokenSourceIsFatal == mapping_file.kind = "broken" => pc # "ready"

\* C9 as amended: a mapping file that does not parse is not fatal: load_mapping
\* returns an empty mapping and startup goes on with an empty catalog, with no
\* repair offered; only a file that parses to something that is no mapping
\* stops startup.
C9_BrokenSourceGivesEmptyCatalog ==
    /\ mapping_file.kind = "broken" =>
          /\ pc # "crashed"
          /\ items = <<>>
          /\ last.op = "validate_categories" => last.outcome = "valid"
    /\ mapping_file.kind = "notmap" => pc \in {"start", "crashed"}

\* the UI is built on top of a mapping file that does not parse
C9_Witness == mapping_file.kind = "broken" /\ pc = "ready"

\* the entries the lines of the master list yield, in order
RECURSIVE EntriesOf(_)
EntriesOf(lines) ==
    IF lines = <<>> THEN <<>>
    ELSE (IF IsEntryLine(Head(lines)) THEN <<EntryOf(Head(lines))>> ELSE <<>>)
         \o EntriesOf(Tail(lines))

\* the first definition, in catalog order, whose name contains the entry's name
\* whatever the case of the letters
IsFirstMatch(its, i, name) ==
    /\ Contains(Lower(its[i].name), Lower(name))
    /\ \A j \in 1..(i - 1) : ~Contains(Lower(its[j].name), Lower(name))

\* a step of load_mapping in which the patch pass ran on a catalog
PatchStep ==
    /\ pc = "start"
    /\ pc' # "start"
    /\ allow_updating
    /\ pictos_file.present
    /\ mapping_file.kind = "map"

\* C10: for each entry of the master list exactly the first definition whose
\* name contains the entry's name (case-insensitively) has its quantity set to
\* the entry's quantity; no later match and no other field is changed, and an
\* entry with no match changes nothing. (A definition that is the first match
\* of several entries ends with the quantity of the last of them.)
C10_FirstMatchGetsQuantity ==
    [][PatchStep =>
        LET old == mapping_file.items
            new == mapping_file'.items
            es == EntriesOf(pictos_file.lines)
        IN  /\ Len(new) = Len(old)
            /\ \A i \in 1..Len(old) :
                  LET hits == {k \in 1..Len(es) : IsFirstMatch(old, i, es[k].name)}
                  IN  /\ new[i].name = old[i].name
                      /\ new[i].save_key = old[i].save_key
                      /\ new[i].category = old[i].category
                      /\ IF hits = {} THEN new[i].quantity = old[i].quantity
                         ELSE \E k \in hits :
                                /\ \A h \in hits : h <= k
                                /\ new[i].quantity = Given(es[k].quantity)]_vars

\* the patch pass has run on a catalog in which two definitions match an entry:
\* the first has the entry's quantity, the second has none
C10_Witness ==
    /\ pc = "loaded"
    /\ allow_updating
    /\ pictos_file.present
    /\ \E k \in 1..Len(pictos_file.lines) :
          /\ IsEntryLine(pictos_file.lines[k])
          /\ \E i, j \in 1..Len(items) :
                /\ i < j
                /\ NameMatches(items[i], EntryOf(pictos_file.lines[k]).name)
                /\ NameMatches(items[j], EntryOf(pictos_file.lines[k]).name)
                /\ items[i].quantity = Given(EntryOf(pictos_file.lines[k]).quantity)
                /\ items[j].quantity = NoQuantity

-----------------------------------------------------------------------------
(* Claims about the lines of the master list *)

\* the length of the run of characters before the first whitespace of s
LeadingRun(s) ==
    CHOOSE k \in 0..Len(s) :
        /\ \A j \in 1..k : ~IsSpace(s[j])
        /\ k = Len(s) \/ IsSpace(s[k + 1])

\* <integer quantity><whitespace><item name>, whitespace being a blank or a tab
HasShape(line) ==
    LET s == Strip(line)
    IN  LeadingRun(s) < Len(s) /\ IsIntText(SubSeq(s, 1, LeadingRun(s)))

ShapeEntry(line) ==
    LET s == Strip(line)
    IN  [quantity |-> IntOf(SubSeq(s, 1, LeadingRun(s))),
         name |-> Strip(SubSeq(s, LeadingRun(s) + 1, Len(s)))]

RECURSIVE ShapeEntries(_)
ShapeEntries(lines) ==
    IF lines = <<>> THEN <<>>
    ELSE (IF HasShape(Head(lines)) THEN <<ShapeEntry(Head(lines))>> ELSE <<>>)
         \o ShapeEntries(Tail(lines))

\* the same shape with the blank as the only separator: the stripped line has
\* a blank, and what stands before its first blank is an integer
BlankAt(s, i) == s[i] = " " /\ \A j \in 1..(i - 1) : s[j] # " "

HasBlankShape(line) ==
    LET s == Strip(line)
    IN  \E i \in 1..Len(s) : BlankAt(s, i) /\ IsIntText(SubSeq(s, 1, i - 1))

BlankEntry(line) ==
    LET s == Strip(line)
        i == CHOOSE b \in 1..Len(s) : BlankAt(s, b)
    IN  [quantity |-> IntOf(SubSeq(s, 1, i - 1)),
         name |-> Strip(SubSeq(s, i + 1, Len(s)))]

RECURSIVE BlankEntries(_)
BlankEntries(lines) ==
    IF lines = <<>> THEN <<>>
    ELSE (IF HasBlankShape(Head(lines)) THEN <<BlankEntry(Head(lines))>> ELSE <<>>)
         \o BlankEntries(Tail(lines))

\* the catalog new is the catalog old with exactly the entries es applied in
\* order: a definition that is the first match of some entry has the quantity
\* of the last such entry, and nothing else differs
CatalogReflects(old, new, es) ==
    /\ Len(new) = Len(old)
    /\ \A i \in 1..Len(old) :
          LET hits == {k \in 1..Len(es) : IsFirstMatch(old, i, es[k].name)}
              want == IF hits = {} THEN old[i].quantity
                      ELSE Given(es[CHOOSE k \in hits : \A h \in hits : h <= k].quantity)
          IN  new[i] = [old[i] EXCEPT !.quantity = want]

\* C11 as claimed: the patch pass ends without an error, and the catalog it
\* leaves is the catalog with every line of the shape
\* <integer quantity><whitespace><item name> applied and every other line
\* passed over, the lines after a line passed over still being applied.
C11_ShapeLinesApplied ==
    [][PatchStep =>
          /\ last'.outcome = "returned"
          /\ CatalogReflects(mapping_file.items, mapping_file'.items,
                             ShapeEntries(pictos_file.lines))]_vars

\* C11 as amended: the separator is the blank alone. A line is an entry exactly
\* when, stripped, it has a blank and the text before its first blank is an
\* integer; every such line is applied, and every other line (no blank, no
\* integer in front, or a tab between quantity and name) is passed over
\* without an error and without changing the catalog, the lines after it still
\* being applied.
C11_BlankLinesApplied ==
    [][PatchStep =>
          /\ last'.outcome = "returned"
          /\ CatalogReflects(mapping_file.items, mapping_file'.items,
                             BlankEntries(pictos_file.lines))]_vars

\* the patch pass has run on a master list whose first line is passed over (it
\* has a tab for the blank) and whose second line is an entry, applied to a
\* definition of the catalog
C11_Witness ==
    /\ pc = "loaded"
    /\ allow_updating
    /\ pictos_file.present
    /\ Len(pictos_file.lines) = 2
    /\ HasShape(pictos_file.lines[1])
    /\ ~HasBlankShape(pictos_file.lines[1])
    /\ HasBlankShape(pictos_file.lines[2])
    /\ \E i \in 1..Len(items) :
          /\ IsFirstMatch(items, i, BlankEntry(pictos_file.lines[2]).name)
          /\ items[i].quantity = Given(BlankEntry(pictos_file.lines[2]).quantity)
          /\ items[i].quantity # Given(ShapeEntry(pictos_file.lines[1]).quantity)

-----------------------------------------------------------------------------
(* Claims about commits and the input fields *)

\* a step of save_json with a target path
CommitStep ==
    /\ clock' = clock
    /\ last'.op = "save_json"
    /\ current_json_path # Unset

\* C12: a commit (save_json) issued while some displayed field holds a
\* non-empty value that is no valid integer is aborted as a whole: the
\* document file is not written, no backup is taken, and the in-memory entry
\* index is what it was before the commit.
C12_BadValueAbortsCommit ==
    [][(CommitStep /\ ~FieldsValid) =>
          /\ fs_json' = fs_json
          /\ backups' = backups
          /\ loaded_json' = loaded_json]_vars

\* the key belongs to a definition of the category and search filter on display
IsDisplayedKey(key) ==
    /\ selected_main # <<>>
    /\ selected_sub # <<>>
    /\ \E i \in 1..Len(items) :
          /\ items[i].save_key = key
          /\ items[i].category.value = selected_main \o <<".">> \o selected_sub
          /\ \/ search_var = <<>>
             \/ Contains(Lower(items[i].name), Lower(search_var))
             \/ Contains(Lower(items[i].save_key), Lower(search_var))

\* a field on display for the key holds a non-empty text that reads as value
EditedBy(key, value) ==
    /\ IsDisplayedKey(key)
    /\ \E f \in 1..Len(input_vars) :
          /\ input_vars[f].key = key
          /\ Strip(input_vars[f].text) # <<>>
          /\ IsIntText(Strip(input_vars[f].text))
          /\ IntOf(Strip(input_vars[f].text)) = value

\* a step of save_json
AnyCommitStep == clock' = clock /\ last'.op = "save_json"

\* a step that ends in refresh_inputs after a category, search or theme change
RefreshStep == clock' = clock /\ last'.op = "refresh"

\* C13: a commit (save_json) changes, in the entry index, only entries whose
\* key is a field of the category and search filter on display and whose input
\* is non-empty: every entry there was keeps its place and its name, an entry
\* whose value differs or that was added has the value of such a field, so a
\* blank field leaves its entry as it was and no entry is removed or moved;
\* and a refresh of the display (category, search or theme change) leaves in
\* every field the value of the index, whatever had been typed before.
C13_CommitChangesShownFieldsOnly ==
    [][/\ AnyCommitStep =>
             /\ Len(loaded_json') >= Len(loaded_json)
             /\ \A i \in 1..Len(loaded_json) :
                   /\ loaded_json'[i].Name = loaded_json[i].Name
                   /\ loaded_json'[i].Int # loaded_json[i].Int =>
                         EditedBy(loaded_json[i].Name, loaded_json'[i].Int)
             /\ \A i \in (Len(loaded_json) + 1)..Len(loaded_json') :
                   EditedBy(loaded_json'[i].Name, loaded_json'[i].Int)
       /\ RefreshStep =>
             /\ loaded_json' = loaded_json
             /\ \A f \in 1..Len(input_vars') :
                   input_vars'[f].text =
                       ValueText(get_value_from_json(loaded_json, input_vars'[f].key))]_vars

\* a commit has run with one field holding a value, now the value of its
\* entry, and another field blank, whose entry is still in the index
C13_Witness ==
    /\ last.op = "save_json"
    /\ \E f, g \in 1..Len(input_vars) :
          /\ Strip(input_vars[f].text) = <<"7">>
          /\ get_value_from_json(loaded_json, input_vars[f].key).present
          /\ get_value_from_json(loaded_json, input_vars[f].key).Int = 7
          /\ Strip(input_vars[g].text) = <<>>
          /\ get_value_from_json(loaded_json, input_vars[g].key).present

-----------------------------------------------------------------------------
(* Claims about the current document path *)

\* C14: the current document path is the path of the file the in-memory
\* document was last loaded from: once a document is in memory, whatever load,
\* commit or export is run, cancelled and failing loads included, the path
\* changes only in a step that loads the document from the file of the new
\* path, so that commit and export act on no file but the one the in-memory
\* document came from.
C14_PathIsDocumentSource ==
    [][(full_json.set /\ current_json_path' # current_json_path) =>
          /\ last'.op \in {"load_sav", "load_json"}
          /\ last'.outcome = "loaded"
          /\ full_json'.set
          /\ fs_json'[current_json_path'] \in DocIds
          /\ full_json' = [set |-> TRUE,
                           props |-> LoadProps(DocOf(fs_json'[current_json_path']), 0)]
       ]_vars

====
